---- MODULE Spec2Model ----
(***************************************************************************)
(* Model of the messaging service: identity resolution, conversation      *)
(* threading, outbound delivery with retry, and message recording.        *)
(*                                                                         *)
(* Every HTTP request is handled by its own worker thread with its own    *)
(* database session (waitress + flask_sqlalchemy), so the steps of        *)
(* different requests interleave at statement granularity.  Identifiers   *)
(* are uuid4 strings in the program; here they are naturals, and the      *)
(* lexicographic order that sorted() uses on them is the order of the     *)
(* naturals.  0 stands for None.                                          *)
(***************************************************************************)
EXTENDS Integers, Sequences, FiniteSets, TLC

\* ---------------------------------------------------------------- bounds
NumReqs == 2

\* ------------------------------------------------------ program constants
MAX_RETRIES == 3
RETRY_DELAY == 5

Reqs == 1..NumReqs
None == 0

\* ------------------------------------------------------- provisioned data
\* Customers and their comm methods are created by provisioning only; the
\* service reads them.  The rows satisfy uq_customer_comm_type_value, the
\* unique constraint on (customer_id, type, value).
CustomerIds == {2, 3}

customer_comm_methods ==
    { [id |-> 1, customer_id |-> 2, type |-> "phone", value |-> "a"],
      [id |-> 2, customer_id |-> 2, type |-> "email", value |-> "s"],
      [id |-> 3, customer_id |-> 3, type |-> "email", value |-> "s"] }

uq_customer_comm_type_value ==
    \A m1, m2 \in customer_comm_methods :
        (m1.customer_id = m2.customer_id /\ m1.type = m2.type /\ m1.value = m2.value)
            => m1 = m2

\* the uuid4 a request's new CustomerContact row gets: distinct per request,
\* request 1's sorts below the customers' ids and the others' above, so that
\* both sort orders of a (customer, contact) pair occur
NewContactId(r) == IF r = 1 THEN 1 ELSE r + 2

\* ------------------------------------------------------------ request data
Directions == {"inbound", "outbound"}
CommTypes == {"phone", "email"}
CustomerAddrs == {"a", "s"}
ContactAddrs == {"x"}
\* shape of the json payload: "ok" has every required field and a body,
\* "malformed" misses a required field or has one of the wrong type,
\* "empty" is well typed but has neither body nor attachments
Shapes == {"ok", "malformed", "empty"}
\* what one call of the delivery function can do: return True, or raise
Outcomes == {"ok", "TimeoutError", "requests.Timeout", "HTTPError"}

Payloads ==
    [direction : Directions, comm_type : CommTypes,
     customer_addr : CustomerAddrs, contact_addr : ContactAddrs, shape : Shapes]

NoData ==
    [direction |-> "none", comm_type |-> "none", customer_addr |-> "none",
     contact_addr |-> "none", shape |-> "none"]
NoParticipants ==
    [customer_comm_method_id |-> None, contact_comm_method_id |-> None,
     customer_id |-> None, customer_contact_id |-> None,
     participants_key |-> <<None, None>>]
NoResponse == [status |-> 0, kind |-> "none", message_id |-> None]

VARIABLES
    customer_contacts,              \* committed rows of customer_contacts
    customer_contact_comm_methods,  \* committed rows of customer_contact_comm_methods
    conversations,                  \* committed rows of conversations
    messages,                       \* committed rows of messages
    pending,                        \* per request: rows flushed in its session, not committed
    lock,                           \* request holding the sqlite write lock, or None
    pc,                             \* per request: position in its handler
    data,                           \* per request: the json payload and its route
    participants,                   \* per request: the tuple get_participants returned
    conversation_id,                \* per request: the result of get_conversation_id
    calls,                          \* per request: outcome of each call of send_message
    sleeps,                         \* per request: the time.sleep() durations, in order
    response,                       \* per request: the (body, status) the handler returned
    created                         \* per request: the rows it inserted, as <<table, id>>

vars ==
    <<customer_contacts, customer_contact_comm_methods, conversations, messages,
      pending, lock, pc, data, participants, conversation_id, calls, sleeps,
      response, created>>

tables == <<customer_contacts, customer_contact_comm_methods, conversations, messages>>

\* ------------------------------------------------------------------ Init
Init ==
    /\ customer_contacts = {}
    /\ customer_contact_comm_methods = {}
    /\ conversations = {}
    /\ messages = {}
    /\ pending = [r \in Reqs |-> {}]
    /\ lock = None
    /\ pc = [r \in Reqs |-> "idle"]
    /\ data = [r \in Reqs |-> NoData]
    /\ participants = [r \in Reqs |-> NoParticipants]
    /\ conversation_id = [r \in Reqs |-> None]
    /\ calls = [r \in Reqs |-> <<>>]
    /\ sleeps = [r \in Reqs |-> <<>>]
    /\ response = [r \in Reqs |-> NoResponse]
    /\ created = [r \in Reqs |-> {}]

\* ------------------------------------------------------------- validation
\* the 'type' of the payload: the email routes force it to "email"
MessageType(d) == IF d.comm_type = "email" THEN "email" ELSE "sms"

\* the one_of_fields argument each route passes to validate_payload
OneOfFields(d) ==
    IF d.direction = "inbound" /\ d.comm_type = "email"
    THEN {"body", "attachments"} ELSE {}

\* data.get(field) is not None, for the two optional content fields
Provided(d, field) == d.shape = "ok" /\ field = "body"

check_one_of_fields(d, one_of_fields) ==
    one_of_fields # {} => \E f \in one_of_fields : Provided(d, f)

\* TRUE iff validate_payload returns without abort(400)
validate_payload(d, one_of_fields) ==
    /\ MessageType(d) = "email" => check_one_of_fields(d, one_of_fields)
    /\ d.shape # "malformed"
    /\ MessageType(d) = "sms" => Provided(d, "body")

\* ---------------------------------------------------------------- queries
\* variant: the WHERE clause without its type condition
SelectCustomerCommMethods_AnyType(comm_type, value) ==
    { m \in customer_comm_methods : m.value = value }

\* SELECT id, customer_id FROM customer_comm_methods WHERE type = .. AND value = ..
SelectCustomerCommMethods(comm_type, value) ==
    { m \in customer_comm_methods : m.type = comm_type /\ m.value = value }

\* variant: the WHERE clause without its customer condition
SelectContactCommMethods_Unscoped(customer_id, comm_type, value) ==
    { cm \in customer_contact_comm_methods :
        /\ cm.type = comm_type
        /\ cm.value = value
        /\ \E cc \in customer_contacts : cc.id = cm.customer_contact_id }

\* variant: the join condition compares the wrong columns
SelectContactCommMethods_WrongJoin(customer_id, comm_type, value) ==
    { cm \in customer_contact_comm_methods :
        /\ cm.type = comm_type
        /\ cm.value = value
        /\ \E cc \in customer_contacts :
              cc.customer_id = cm.customer_contact_id /\ cc.customer_id = customer_id }

\* SELECT cm.id, cm.customer_contact_id FROM customer_contact_comm_methods cm
\* INNER JOIN customer_contacts cc ON cc.id = cm.customer_contact_id
\* WHERE cc.customer_id = .. AND cm.type = .. AND cm.value = ..
SelectContactCommMethods(customer_id, comm_type, value) ==
    { cm \in customer_contact_comm_methods :
        /\ cm.type = comm_type
        /\ cm.value = value
        /\ \E cc \in customer_contacts :
              cc.id = cm.customer_contact_id /\ cc.customer_id = customer_id }

\* SELECT id FROM conversations WHERE participants_key = ..
SelectConversations(participants_key) ==
    { c \in conversations : c.participants_key = participants_key }

\* variant: the join without sorted()
ParticipantsKey_Unsorted(customer_id, customer_contact_id) ==
    <<customer_id, customer_contact_id>>

\* ",".join(sorted([customer_id, customer_contact_id]))
ParticipantsKey(customer_id, customer_contact_id) ==
    IF customer_id <= customer_contact_id
    THEN <<customer_id, customer_contact_id>>
    ELSE <<customer_contact_id, customer_id>>

\* the address get_participants looks the customer up by, and the contact's
CustomerAddress(d) == d.customer_addr
ContactAddress(d) == d.contact_addr

\* ------------------------------------------------------------- responses
\* process_inbound_message / process_outbound_message: except Exception as e
ErrorResponse(kind) == [status |-> 400, kind |-> kind, message_id |-> None]
DeliveryFailedResponse == [status |-> 500, kind |-> "failed to send message", message_id |-> None]
\* variant: the success body without the id of the saved row
SuccessResponse_NoId(message_id) == [status |-> 200, kind |-> "ok", message_id |-> None]

SuccessResponse(message_id) == [status |-> 200, kind |-> "ok", message_id |-> message_id]

Respond(r, resp) ==
    /\ response' = [response EXCEPT ![r] = resp]
    /\ pc' = [pc EXCEPT ![r] = "done"]

\* ---------------------------------------------------------------- delivery
\* variant: every exception is retried
IsTimeoutError_Any(outcome) == outcome # "ok"

\* except TimeoutError: the builtin and its subclasses; requests.exceptions.Timeout
\* derives from RequestException (IOError), not from TimeoutError
IsTimeoutError(outcome) == outcome = "TimeoutError"

\* variant: exponent off by one
BackoffDelay_OffByOne(attempt) == RETRY_DELAY * (2 ^ attempt)

\* time.sleep(RETRY_DELAY * (2 ** (attempt - 1)))
BackoffDelay(attempt) == RETRY_DELAY * (2 ^ (attempt - 1))

\* variant: the outbound handler records without delivering
AfterParticipants_NoDelivery(d) == "conv_select"

\* where a handler goes once get_participants has returned
AfterParticipants(d) == IF d.direction = "inbound" THEN "conv_select" ELSE "deliver"

\* ---------------------------------------------------------------- actions
\* a route handler is entered with a payload and runs validate_payload
\* (requests are numbered in the order they arrive)
Receive(r) ==
    /\ pc[r] = "idle"
    /\ \A q \in Reqs : q < r => pc[q] # "idle"
    /\ \E d \in Payloads :
        /\ data' = [data EXCEPT ![r] = d]
        /\ IF validate_payload(d, OneOfFields(d))
           THEN /\ pc' = [pc EXCEPT ![r] = "customer_select"]
                /\ UNCHANGED response
           ELSE Respond(r, ErrorResponse("validation"))
    /\ UNCHANGED <<tables, pending, lock, participants, conversation_id, calls,
                   sleeps, created>>

\* get_customer_comm_method_id, called first by get_participants
GetCustomerCommMethodId(r) ==
    /\ pc[r] = "customer_select"
    /\ LET result == SelectCustomerCommMethods(data[r].comm_type, CustomerAddress(data[r]))
       IN  IF result = {}
           THEN Respond(r, ErrorResponse("customer communication method not found"))
                /\ UNCHANGED participants
           ELSE IF Cardinality(result) > 1
           THEN Respond(r, ErrorResponse("multiple customer communication methods found"))
                /\ UNCHANGED participants
           ELSE LET row == CHOOSE m \in result : TRUE
                IN  /\ participants' = [participants EXCEPT ![r] =
                            [@ EXCEPT !.customer_comm_method_id = row.id,
                                      !.customer_id = row.customer_id]]
                    /\ pc' = [pc EXCEPT ![r] = "contact_select"]
                    /\ UNCHANGED response
    /\ UNCHANGED <<tables, pending, lock, data, conversation_id, calls, sleeps, created>>

\* get_customer_contact_comm_method_id: the SELECT and what follows it up to
\* the return or the first INSERT
SelectContact(r) ==
    /\ pc[r] = "contact_select"
    /\ LET customer_id == participants[r].customer_id
           result == SelectContactCommMethods(customer_id, data[r].comm_type,
                                              ContactAddress(data[r]))
       IN  IF Cardinality(result) > 1
           THEN Respond(r, ErrorResponse("multiple customer contacts communication methods found"))
                /\ UNCHANGED participants
           ELSE IF result # {}
           THEN LET row == CHOOSE cm \in result : TRUE
                IN  /\ participants' = [participants EXCEPT ![r] =
                            [@ EXCEPT !.contact_comm_method_id = row.id,
                                      !.customer_contact_id = row.customer_contact_id,
                                      !.participants_key =
                                          ParticipantsKey(customer_id, row.customer_contact_id)]]
                    /\ pc' = [pc EXCEPT ![r] = AfterParticipants(data[r])]
                    /\ UNCHANGED response
           ELSE /\ pc' = [pc EXCEPT ![r] = "contact_flush"]
                /\ UNCHANGED <<participants, response>>
    /\ UNCHANGED <<tables, pending, lock, data, conversation_id, calls, sleeps, created>>

\* variant: the contact is committed on its own, before the comm method
FlushContact_Commits(r) ==
    /\ pc[r] = "contact_flush"
    /\ lock = None
    /\ LET new_contact == [id |-> NewContactId(r), customer_id |-> participants[r].customer_id]
       IN  /\ pending' = [pending EXCEPT ![r] = {new_contact}]
           /\ customer_contacts' = customer_contacts \cup {new_contact}
    /\ lock' = r
    /\ pc' = [pc EXCEPT ![r] = "contact_commit"]
    /\ UNCHANGED <<customer_contact_comm_methods, conversations, messages, data,
                   participants, conversation_id, calls, sleeps, response, created>>

\* db.session.add(new_contact); db.session.flush(): the INSERT opens the
\* session's write transaction; the row is not visible to other sessions
FlushContact(r) ==
    /\ pc[r] = "contact_flush"
    /\ lock = None
    /\ pending' = [pending EXCEPT ![r] =
           {[id |-> NewContactId(r), customer_id |-> participants[r].customer_id]}]
    /\ lock' = r
    /\ pc' = [pc EXCEPT ![r] = "contact_commit"]
    /\ UNCHANGED <<tables, data, participants, conversation_id, calls, sleeps,
                   response, created>>

\* variant: the comm method is flushed like the contact, the commit left to
\* a later statement of the request
CommitContact_Flushes(r) ==
    /\ pc[r] = "contact_commit"
    /\ lock = r
    /\ LET new_contact == CHOOSE cc \in pending[r] : TRUE
           new_comm == [id |-> Cardinality(customer_contact_comm_methods) + 1,
                        customer_contact_id |-> new_contact.id,
                        type |-> data[r].comm_type,
                        value |-> ContactAddress(data[r])]
       IN  participants' = [participants EXCEPT ![r] =
                   [@ EXCEPT !.contact_comm_method_id = new_comm.id,
                             !.customer_contact_id = new_contact.id,
                             !.participants_key =
                                 ParticipantsKey(participants[r].customer_id, new_contact.id)]]
    /\ pc' = [pc EXCEPT ![r] = AfterParticipants(data[r])]
    /\ UNCHANGED <<tables, pending, lock, data, conversation_id, calls, sleeps,
                   response, created>>

\* db.session.add(new_comm); db.session.commit(); return new_comm.id, new_contact.id
CommitContact(r) ==
    /\ pc[r] = "contact_commit"
    /\ lock = r
    /\ LET new_contact == CHOOSE cc \in pending[r] : TRUE
           new_comm == [id |-> Cardinality(customer_contact_comm_methods) + 1,
                        customer_contact_id |-> new_contact.id,
                        type |-> data[r].comm_type,
                        value |-> ContactAddress(data[r])]
       IN  /\ customer_contacts' = customer_contacts \cup {new_contact}
           /\ customer_contact_comm_methods' = customer_contact_comm_methods \cup {new_comm}
           /\ created' = [created EXCEPT ![r] =
                   @ \cup {<<"customer_contacts", new_contact.id>>,
                           <<"customer_contact_comm_methods", new_comm.id>>}]
           /\ participants' = [participants EXCEPT ![r] =
                   [@ EXCEPT !.contact_comm_method_id = new_comm.id,
                             !.customer_contact_id = new_contact.id,
                             !.participants_key =
                                 ParticipantsKey(participants[r].customer_id, new_contact.id)]]
    /\ pending' = [pending EXCEPT ![r] = {}]
    /\ lock' = None
    /\ pc' = [pc EXCEPT ![r] = AfterParticipants(data[r])]
    /\ UNCHANGED <<conversations, messages, data, conversation_id, calls, sleeps, response>>

\* an exception raised after the flush (ContactType(comm_type), add or commit
\* raising): the handler's except clause answers, and the session, removed
\* with the request, rolls its open transaction back
FailContactCommit(r) ==
    /\ pc[r] = "contact_commit"
    /\ lock = r
    /\ pending' = [pending EXCEPT ![r] = {}]
    /\ lock' = None
    /\ Respond(r, ErrorResponse("contact not saved"))
    /\ UNCHANGED <<tables, data, participants, conversation_id, calls, sleeps, created>>

\* variant: a failed delivery is logged and the handler goes on to record
SendMessage_RecordsAnyway(r) ==
    /\ pc[r] = "deliver"
    /\ \E outcome \in Outcomes :
        /\ calls' = [calls EXCEPT ![r] = Append(@, outcome)]
        /\ IF IsTimeoutError(outcome)
           THEN pc' = [pc EXCEPT ![r] = "backoff"]
           ELSE pc' = [pc EXCEPT ![r] = "conv_select"]
    /\ UNCHANGED <<tables, pending, lock, data, participants, conversation_id,
                   sleeps, response, created>>

\* api_retry_with_backoff: one pass of the loop body, func(*args) and the
\* except clause that catches what it raised
SendMessage(r) ==
    /\ pc[r] = "deliver"
    /\ \E outcome \in Outcomes :
        /\ calls' = [calls EXCEPT ![r] = Append(@, outcome)]
        /\ IF outcome = "ok"
           THEN pc' = [pc EXCEPT ![r] = "conv_select"] /\ UNCHANGED response
           ELSE IF IsTimeoutError(outcome)
           THEN pc' = [pc EXCEPT ![r] = "backoff"] /\ UNCHANGED response
           ELSE Respond(r, DeliveryFailedResponse)
    /\ UNCHANGED <<tables, pending, lock, data, participants, conversation_id,
                   sleeps, created>>

\* variant: the attempt counter starts over when the attempts are used up
BackoffSleep_Restart(r) ==
    /\ pc[r] = "backoff"
    /\ LET attempt == Len(calls[r])
       IN  IF attempt < MAX_RETRIES
           THEN /\ sleeps' = [sleeps EXCEPT ![r] = Append(@, BackoffDelay(attempt))]
                /\ UNCHANGED calls
           ELSE /\ sleeps' = [sleeps EXCEPT ![r] = <<>>]
                /\ calls' = [calls EXCEPT ![r] = <<>>]
    /\ pc' = [pc EXCEPT ![r] = "deliver"]
    /\ UNCHANGED <<tables, pending, lock, data, participants, conversation_id,
                   response, created>>

\* api_retry_with_backoff: the time.sleep of the TimeoutError clause and the
\* loop's next iteration, or the return False after the loop
BackoffSleep(r) ==
    /\ pc[r] = "backoff"
    /\ LET attempt == Len(calls[r])
       IN  /\ sleeps' = [sleeps EXCEPT ![r] = Append(@, BackoffDelay(attempt))]
           /\ IF attempt < MAX_RETRIES
              THEN pc' = [pc EXCEPT ![r] = "deliver"] /\ UNCHANGED response
              ELSE Respond(r, DeliveryFailedResponse)
    /\ UNCHANGED <<tables, pending, lock, data, participants, conversation_id,
                   calls, created>>

\* get_conversation_id: the SELECT and what follows it up to the return or
\* the INSERT
SelectConversation(r) ==
    /\ pc[r] = "conv_select"
    /\ LET result == SelectConversations(participants[r].participants_key)
       IN  IF Cardinality(result) > 1
           THEN Respond(r, ErrorResponse("multiple conversations found"))
                /\ UNCHANGED conversation_id
           ELSE IF result # {}
           THEN /\ conversation_id' = [conversation_id EXCEPT ![r] =
                                          (CHOOSE c \in result : TRUE).id]
                /\ pc' = [pc EXCEPT ![r] = "save_message"]
                /\ UNCHANGED response
           ELSE /\ pc' = [pc EXCEPT ![r] = "conv_commit"]
                /\ UNCHANGED <<conversation_id, response>>
    /\ UNCHANGED <<tables, pending, lock, data, participants, calls, sleeps, created>>

\* db.session.add(new_conversation); db.session.commit(); return new_conversation.id
CommitConversation(r) ==
    /\ pc[r] = "conv_commit"
    /\ lock = None
    /\ LET new_conversation ==
               [id |-> Cardinality(conversations) + 1,
                customer_id |-> participants[r].customer_id,
                customer_contact_id |-> participants[r].customer_contact_id,
                participants_key |-> participants[r].participants_key]
       IN  /\ conversations' = conversations \cup {new_conversation}
           /\ conversation_id' = [conversation_id EXCEPT ![r] = new_conversation.id]
           /\ created' = [created EXCEPT ![r] =
                             @ \cup {<<"conversations", new_conversation.id>>}]
    /\ pc' = [pc EXCEPT ![r] = "save_message"]
    /\ UNCHANGED <<customer_contacts, customer_contact_comm_methods, messages,
                   pending, lock, data, participants, calls, sleeps, response>>

\* variant: the two customer-side references exchanged
NewMessage_Swapped(id, conv_id, customer_comm_method_id, contact_comm_method_id, message_direction) ==
    [id |-> id,
     conversation_id |-> conv_id,
     to_customer_comm_id |->
         IF message_direction = "outbound" THEN customer_comm_method_id ELSE None,
     from_customer_comm_id |->
         IF message_direction = "inbound" THEN customer_comm_method_id ELSE None,
     from_contact_comm_id |->
         IF message_direction = "inbound" THEN contact_comm_method_id ELSE None,
     to_contact_comm_id |->
         IF message_direction = "outbound" THEN contact_comm_method_id ELSE None]

\* the Message row create_message builds
NewMessage(id, conv_id, customer_comm_method_id, contact_comm_method_id, message_direction) ==
    [id |-> id,
     conversation_id |-> conv_id,
     to_customer_comm_id |->
         IF message_direction = "inbound" THEN customer_comm_method_id ELSE None,
     from_customer_comm_id |->
         IF message_direction = "outbound" THEN customer_comm_method_id ELSE None,
     from_contact_comm_id |->
         IF message_direction = "inbound" THEN contact_comm_method_id ELSE None,
     to_contact_comm_id |->
         IF message_direction = "outbound" THEN contact_comm_method_id ELSE None]

\* create_message with its save_message, and the handler's success return
CreateMessage(r) ==
    /\ pc[r] = "save_message"
    /\ lock = None
    /\ LET message == NewMessage(Cardinality(messages) + 1, conversation_id[r],
                                 participants[r].customer_comm_method_id,
                                 participants[r].contact_comm_method_id,
                                 data[r].direction)
       IN  /\ messages' = messages \cup {message}
           /\ created' = [created EXCEPT ![r] = @ \cup {<<"messages", message.id>>}]
           /\ Respond(r, SuccessResponse(message.id))
    /\ UNCHANGED <<customer_contacts, customer_contact_comm_methods, conversations,
                   pending, lock, data, participants, conversation_id, calls, sleeps>>

\* ------------------------------------------------------------ specification
Step(r) ==
    \/ Receive(r)
    \/ GetCustomerCommMethodId(r)
    \/ SelectContact(r)
    \/ FlushContact(r)
    \/ CommitContact(r)
    \/ FailContactCommit(r)
    \/ SendMessage(r)
    \/ BackoffSleep(r)
    \/ SelectConversation(r)
    \/ CommitConversation(r)
    \/ CreateMessage(r)

\* requests handled concurrently by the server's worker threads
Next == \E r \in Reqs : Step(r)

Spec == Init /\ [][Next]_vars

\* requests handled one after another: a request takes steps only while no
\* other request is between its arrival and its response
OthersQuiet(r) == \A q \in Reqs \ {r} : pc[q] \in {"idle", "done"}

SeqNext ==
    \E r \in Reqs :
        \/ OthersQuiet(r) /\ Receive(r)
        \/ OthersQuiet(r) /\ GetCustomerCommMethodId(r)
        \/ OthersQuiet(r) /\ SelectContact(r)
        \/ OthersQuiet(r) /\ FlushContact(r)
        \/ OthersQuiet(r) /\ CommitContact(r)
        \/ OthersQuiet(r) /\ FailContactCommit(r)
        \/ OthersQuiet(r) /\ SendMessage(r)
        \/ OthersQuiet(r) /\ BackoffSleep(r)
        \/ OthersQuiet(r) /\ SelectConversation(r)
        \/ OthersQuiet(r) /\ CommitConversation(r)
        \/ OthersQuiet(r) /\ CreateMessage(r)

SeqSpec == Init /\ [][SeqNext]_vars

\* the service started on a database seeded with a contact of the other
\* customer (3) that has the contact address the requests use
SeededContactId == NumReqs + 3

ScopeInit ==
    /\ customer_contacts = {[id |-> SeededContactId, customer_id |-> 3]}
    /\ customer_contact_comm_methods =
           {[id |-> 1, customer_contact_id |-> SeededContactId,
             type |-> "phone", value |-> "x"]}
    /\ conversations = {}
    /\ messages = {}
    /\ pending = [r \in Reqs |-> {}]
    /\ lock = None
    /\ pc = [r \in Reqs |-> "idle"]
    /\ data = [r \in Reqs |-> NoData]
    /\ participants = [r \in Reqs |-> NoParticipants]
    /\ conversation_id = [r \in Reqs |-> None]
    /\ calls = [r \in Reqs |-> <<>>]
    /\ sleeps = [r \in Reqs |-> <<>>]
    /\ response = [r \in Reqs |-> NoResponse]
    /\ created = [r \in Reqs |-> {}]

ScopeSpec == ScopeInit /\ [][Next]_vars

\* the tables after two concurrent first messages from contact address "x"
\* to the customer's phone channel "a" have both been answered: both ran the
\* SELECT of get_customer_contact_comm_method_id before either committed
AfterContactRace ==
    /\ customer_contacts = {[id |-> 1, customer_id |-> 2], [id |-> 4, customer_id |-> 2]}
    /\ customer_contact_comm_methods =
           {[id |-> 1, customer_contact_id |-> 1, type |-> "phone", value |-> "x"],
            [id |-> 2, customer_contact_id |-> 4, type |-> "phone", value |-> "x"]}
    /\ conversations =
           {[id |-> 1, customer_id |-> 2, customer_contact_id |-> 1,
             participants_key |-> <<1, 2>>],
            [id |-> 2, customer_id |-> 2, customer_contact_id |-> 4,
             participants_key |-> <<2, 4>>]}
    /\ messages =
           {[id |-> 1, conversation_id |-> 1, to_customer_comm_id |-> 1,
             from_customer_comm_id |-> None, from_contact_comm_id |-> 1,
             to_contact_comm_id |-> None],
            [id |-> 2, conversation_id |-> 2, to_customer_comm_id |-> 1,
             from_customer_comm_id |-> None, from_contact_comm_id |-> 2,
             to_contact_comm_id |-> None]}

\* the tables after two such messages have both been answered when the
\* second request found the first one's contact and both ran the SELECT of
\* get_conversation_id before either committed
AfterConversationRace ==
    /\ customer_contacts = {[id |-> 1, customer_id |-> 2]}
    /\ customer_contact_comm_methods =
           {[id |-> 1, customer_contact_id |-> 1, type |-> "phone", value |-> "x"]}
    /\ conversations =
           {[id |-> 1, customer_id |-> 2, customer_contact_id |-> 1,
             participants_key |-> <<1, 2>>],
            [id |-> 2, customer_id |-> 2, customer_contact_id |-> 1,
             participants_key |-> <<1, 2>>]}
    /\ messages =
           {[id |-> 1, conversation_id |-> 1, to_customer_comm_id |-> 1,
             from_customer_comm_id |-> None, from_contact_comm_id |-> 1,
             to_contact_comm_id |-> None],
            [id |-> 2, conversation_id |-> 2, to_customer_comm_id |-> 1,
             from_customer_comm_id |-> None, from_contact_comm_id |-> 1,
             to_contact_comm_id |-> None]}

EmptyTables ==
    /\ customer_contacts = {}
    /\ customer_contact_comm_methods = {}
    /\ conversations = {}
    /\ messages = {}

\* the next requests arrive after earlier requests have been answered: on
\* the empty tables, or on the tables one of the two races above left
AfterRaceInit ==
    /\ EmptyTables \/ AfterContactRace \/ AfterConversationRace
    /\ pending = [r \in Reqs |-> {}]
    /\ lock = None
    /\ pc = [r \in Reqs |-> "idle"]
    /\ data = [r \in Reqs |-> NoData]
    /\ participants = [r \in Reqs |-> NoParticipants]
    /\ conversation_id = [r \in Reqs |-> None]
    /\ calls = [r \in Reqs |-> <<>>]
    /\ sleeps = [r \in Reqs |-> <<>>]
    /\ response = [r \in Reqs |-> NoResponse]
    /\ created = [r \in Reqs |-> {}]

\* each of them run alone to completion
AfterRaceSpec == AfterRaceInit /\ [][SeqNext]_vars

TypeOK ==
    /\ pc \in [Reqs -> {"idle", "customer_select", "contact_select", "contact_flush",
                         "contact_commit", "deliver", "backoff", "conv_select",
                         "conv_commit", "save_message", "done"}]
    /\ lock \in Reqs \cup {None}
    /\ \A r \in Reqs : Len(calls[r]) <= MAX_RETRIES /\ Len(sleeps[r]) <= MAX_RETRIES

\* ------------------------------------------------------------- properties
Last(seq) == seq[Len(seq)]

Resolved(r) == participants[r].customer_contact_id # None

SameContactKey(r1, r2) ==
    /\ participants[r1].customer_id = participants[r2].customer_id
    /\ data[r1].comm_type = data[r2].comm_type
    /\ data[r1].contact_addr = data[r2].contact_addr

MessagesOf(r) == { m \in messages : <<"messages", m.id>> \in created[r] }

\* C1: calls of get_customer_contact_comm_method_id with the same
\* (customer_id, type, value), started with no matching row, create exactly
\* one CustomerContact row and one CustomerContactCommMethod row between
\* them, and all of them return the same (comm method id, contact id).
C1_NoDuplicateContactsUnderRace ==
    \A r1, r2 \in Reqs :
        (Resolved(r1) /\ Resolved(r2) /\ SameContactKey(r1, r2)) =>
            LET matching ==
                    { cm \in customer_contact_comm_methods :
                        /\ cm.type = data[r1].comm_type
                        /\ cm.value = data[r1].contact_addr
                        /\ \E cc \in customer_contacts :
                              /\ cc.id = cm.customer_contact_id
                              /\ cc.customer_id = participants[r1].customer_id }
            IN  /\ Cardinality(matching) = 1
                /\ Cardinality({ cm.customer_contact_id : cm \in matching }) = 1
                /\ participants[r1].contact_comm_method_id =
                       participants[r2].contact_comm_method_id
                /\ participants[r1].customer_contact_id =
                       participants[r2].customer_contact_id

\* C2: in every reachable state the conversations table holds at most one
\* row per participants_key.
C2_OneConversationPerKey ==
    \A c1, c2 \in conversations :
        c1.participants_key = c2.participants_key => c1 = c2

\* delivery of an outbound request has failed: its last call raised and no
\* further call follows (a non-timeout error, or the last of the attempts)
DeliveryFailed(r) ==
    /\ calls[r] # <<>>
    /\ Last(calls[r]) # "ok"
    /\ Last(calls[r]) # "TimeoutError" \/ Len(calls[r]) = 3

\* C3: an outbound request whose delivery failed has no Message row and,
\* once answered, has the 500 'failed to send message' response; a Message
\* row of an outbound request exists only after a delivery call returned
\* success.
C3_DeliveryBeforeRecord ==
    \A r \in Reqs :
        data[r].direction = "outbound" =>
            /\ DeliveryFailed(r) =>
                  /\ MessagesOf(r) = {}
                  /\ conversation_id[r] = None
                  /\ pc[r] \in {"backoff", "done"}
                  /\ pc[r] = "done" =>
                        /\ response[r].status = 500
                        /\ response[r].kind = "failed to send message"
                        /\ response[r].message_id = None
            /\ MessagesOf(r) # {} =>
                  /\ calls[r] # <<>>
                  /\ Last(calls[r]) = "ok"

C3_Witness ==
    \E r \in Reqs :
        /\ data[r].direction = "outbound"
        /\ pc[r] = "done"
        /\ calls[r] = <<"TimeoutError", "HTTPError">>
        /\ response[r].status = 500
        /\ MessagesOf(r) = {}

AllTimeouts(r) == \A i \in 1..Len(calls[r]) : calls[r][i] = "TimeoutError"

C6_NetworkTimeoutIsRetried ==
    \A r \in Reqs :
        (pc[r] = "done" /\ calls[r] # <<>> /\ Last(calls[r]) = "requests.Timeout")
            => Len(calls[r]) = 3

SamePair(r1, r2) ==
    /\ participants[r1].customer_id = participants[r2].customer_id
    /\ participants[r1].customer_contact_id = participants[r2].customer_contact_id

CreatedConversation(r) == \E c \in conversations : <<"conversations", c.id>> \in created[r]

\* C7: when requests run one after another, the participants key of a
\* resolved (customer, contact) pair is the same whichever id comes first,
\* every call of get_conversation_id for the pair returns (none fails), all
\* of them return the same conversation id, and only the first creates a row.
C7_IdempotentConversationKey ==
    \A r1 \in Reqs :
        Resolved(r1) =>
            LET c == participants[r1].customer_id
                k == participants[r1].customer_contact_id
            IN  /\ ParticipantsKey(c, k) = ParticipantsKey(k, c)
                /\ participants[r1].participants_key = ParticipantsKey(k, c)
                /\ response[r1].kind # "multiple conversations found"
                /\ Cardinality({ cv \in conversations :
                                    cv.customer_id = c /\ cv.customer_contact_id = k }) <= 1
                /\ \A r2 \in Reqs :
                      (Resolved(r2) /\ SamePair(r1, r2)
                          /\ conversation_id[r1] # None /\ conversation_id[r2] # None) =>
                          /\ conversation_id[r1] = conversation_id[r2]
                          /\ (r1 < r2) => ~CreatedConversation(r2)

C7_Witness ==
    \E r1, r2 \in Reqs :
        /\ r1 < r2
        /\ data[r1].direction = "inbound" /\ data[r2].direction = "outbound"
        /\ response[r1].status = 200 /\ response[r2].status = 200
        /\ SamePair(r1, r2)
        /\ conversation_id[r1] = conversation_id[r2]
        /\ CreatedConversation(r1) /\ ~CreatedConversation(r2)
        /\ Cardinality(conversations) = 1

\* the customer-side address of a validated request matches no
\* CustomerCommMethod row of the channel's type
UnknownCustomerChannel(r) ==
    /\ pc[r] # "idle"
    /\ response[r].kind # "validation"
    /\ ~\E m \in customer_comm_methods :
          m.type = data[r].comm_type /\ m.value = data[r].customer_addr

\* C8: a request whose customer-side address matches no CustomerCommMethod
\* row of the channel's type creates no row in any table, attempts no
\* delivery, and is answered with the not-found error and status 400.
C8_UnknownCustomerChannel ==
    \A r \in Reqs :
        UnknownCustomerChannel(r) =>
            /\ created[r] = {}
            /\ pending[r] = {}
            /\ calls[r] = <<>>
            /\ ~Resolved(r)
            /\ pc[r] \in {"customer_select", "done"}
            /\ pc[r] = "done" =>
                  /\ response[r].status = 400
                  /\ response[r].kind = "customer communication method not found"

C8_Witness ==
    \E r \in Reqs :
        /\ pc[r] = "done"
        /\ data[r].comm_type = "phone" /\ data[r].customer_addr = "s"
        /\ response[r].kind = "customer communication method not found"
        /\ created[r] = {}

\* C9: validation and not-found failures are answered with status 400, and
\* an ambiguity failure (more than one row matching a customer comm method,
\* a contact comm method or a participants key) with a 500-class status.
C9_StatusByFailureKind ==
    \A r \in Reqs :
        pc[r] = "done" =>
            /\ response[r].kind \in {"validation", "customer communication method not found"}
                  => response[r].status = 400
            /\ response[r].kind \in {"multiple customer communication methods found",
                                      "multiple customer contacts communication methods found",
                                      "multiple conversations found"}
                  => response[r].status >= 500

\* C10: while (customer_id, type, value) is unique in customer_comm_methods,
\* get_customer_comm_method_id never fails with the multiple-matches error.
C10_NoAmbiguityUnderUniqueness ==
    (\A m1, m2 \in customer_comm_methods :
        (m1.customer_id = m2.customer_id /\ m1.type = m2.type /\ m1.value = m2.value)
            => m1.id = m2.id)
    => \A r \in Reqs :
          response[r].kind # "multiple customer communication methods found"

\* C11: every Message row has exactly one customer-side and exactly one
\* contact-side reference set, chosen by the direction of its request:
\* inbound sets from_contact_comm_id and to_customer_comm_id, outbound sets
\* from_customer_comm_id and to_contact_comm_id; the other two are null.
C11_DirectionalReferences ==
    \A r \in Reqs :
        \A m \in MessagesOf(r) :
            /\ (m.from_customer_comm_id = None) # (m.to_customer_comm_id = None)
            /\ (m.from_contact_comm_id = None) # (m.to_contact_comm_id = None)
            /\ data[r].direction = "inbound" =>
                  /\ m.from_contact_comm_id = participants[r].contact_comm_method_id
                  /\ m.to_customer_comm_id = participants[r].customer_comm_method_id
                  /\ m.from_contact_comm_id # None /\ m.to_customer_comm_id # None
                  /\ m.from_customer_comm_id = None /\ m.to_contact_comm_id = None
            /\ data[r].direction = "outbound" =>
                  /\ m.from_customer_comm_id = participants[r].customer_comm_method_id
                  /\ m.to_contact_comm_id = participants[r].contact_comm_method_id
                  /\ m.from_customer_comm_id # None /\ m.to_contact_comm_id # None
                  /\ m.to_customer_comm_id = None /\ m.from_contact_comm_id = None

C11_Witness ==
    \E r1, r2 \in Reqs :
        /\ data[r1].direction = "inbound" /\ data[r2].direction = "outbound"
        /\ \E m \in MessagesOf(r1) : m.from_contact_comm_id # None
        /\ \E m \in MessagesOf(r2) : m.to_contact_comm_id # None

C13_OneOutcomePerRequest ==
    \A r \in Reqs :
        /\ Cardinality(MessagesOf(r)) <= 1
        /\ pc[r] # "done" => MessagesOf(r) = {} /\ response[r] = NoResponse
        /\ pc[r] = "done" =>
              \/ /\ response[r].status = 200
                 /\ \E m \in messages : MessagesOf(r) = {m} /\ response[r].message_id = m.id
              \/ /\ response[r].status \in {400, 500}
                 /\ response[r].message_id = None
                 /\ MessagesOf(r) = {}

C13_Witness ==
    \E r1, r2 \in Reqs :
        /\ response[r1].status = 200 /\ response[r1].message_id # None
        /\ MessagesOf(r1) # {}
        /\ response[r2].status = 400 /\ MessagesOf(r2) = {}
        /\ pc[r2] = "done"

SameAddresses(r1, r2) ==
    /\ data[r1].comm_type = data[r2].comm_type
    /\ data[r1].customer_addr = data[r2].customer_addr
    /\ data[r1].contact_addr = data[r2].contact_addr

CreatedIn(r, table) == { row \in created[r] : row[1] = table }

\* C14: when requests run one after another, a request between the same
\* contact address and customer channel as an earlier, recorded message
\* creates no CustomerContact, no CustomerContactCommMethod and no
\* Conversation row, resolves to the contact and the conversation id of the
\* earlier message, and on success creates exactly one Message row.
C14_RepeatContact ==
    \A r1, r2 \in Reqs :
        (r1 < r2 /\ response[r1].status = 200 /\ pc[r2] # "idle" /\ SameAddresses(r1, r2)) =>
            /\ CreatedIn(r2, "customer_contacts") = {}
            /\ CreatedIn(r2, "customer_contact_comm_methods") = {}
            /\ CreatedIn(r2, "conversations") = {}
            /\ pending[r2] = {}
            /\ Resolved(r2) =>
                  /\ participants[r2].customer_contact_id = participants[r1].customer_contact_id
                  /\ participants[r2].contact_comm_method_id =
                         participants[r1].contact_comm_method_id
            /\ conversation_id[r2] # None => conversation_id[r2] = conversation_id[r1]
            /\ response[r2].status = 200 =>
                  /\ Cardinality(created[r2]) = 1
                  /\ Cardinality(MessagesOf(r2)) = 1
                  /\ \A m \in MessagesOf(r2) : m.conversation_id = conversation_id[r1]

C14_Witness ==
    \E r1, r2 \in Reqs :
        /\ r1 < r2
        /\ data[r1].direction = "inbound" /\ data[r2].direction = "inbound"
        /\ response[r1].status = 200 /\ response[r2].status = 200
        /\ SameAddresses(r1, r2)
        /\ Cardinality(customer_contacts) = 1
        /\ Cardinality(customer_contact_comm_methods) = 1
        /\ Cardinality(conversations) = 1
        /\ Cardinality(messages) = 2

\* the contact comm methods with a request's type and contact address whose
\* contact belongs to the customer the request resolved
OwnMatches(r) ==
    { cm \in customer_contact_comm_methods :
        /\ cm.type = data[r].comm_type
        /\ cm.value = data[r].contact_addr
        /\ \E cc \in customer_contacts :
              cc.id = cm.customer_contact_id /\ cc.customer_id = participants[r].customer_id }

\* C15: the contact a request resolves belongs to the customer the request
\* resolved, and the comm method it resolves belongs to that contact, also
\* when another customer has a contact with the same (type, value); a
\* request is rejected as ambiguous only when two rows of its own customer
\* match.
C15_ContactScopedToCustomer ==
    \A r \in Reqs :
        /\ Resolved(r) =>
              /\ \E cc \in customer_contacts :
                    /\ cc.id = participants[r].customer_contact_id
                    /\ cc.customer_id = participants[r].customer_id
              /\ \E cm \in customer_contact_comm_methods :
                    /\ cm.id = participants[r].contact_comm_method_id
                    /\ cm.customer_contact_id = participants[r].customer_contact_id
              /\ participants[r].customer_contact_id # SeededContactId
        /\ response[r].kind = "multiple customer contacts communication methods found"
              => Cardinality(OwnMatches(r)) >= 2

C15_Witness ==
    \E r \in Reqs :
        /\ response[r].status = 200
        /\ participants[r].customer_id = 2
        /\ \E c2, c3 \in customer_contacts :
              /\ c2.customer_id = 2 /\ c3.customer_id = 3
              /\ c2.id = participants[r].customer_contact_id
              /\ \E m2, m3 \in customer_contact_comm_methods :
                    /\ m2.customer_contact_id = c2.id /\ m3.customer_contact_id = c3.id
                    /\ m2.type = m3.type /\ m2.value = m3.value

\* C17: in every committed state each CustomerContact row has a
\* CustomerContactCommMethod row referencing it; a contact that is flushed
\* but not committed is in no committed table, and a request that failed
\* between the insert of the contact and the commit has left no row.
C17_NoOrphanContact ==
    /\ \A cc \in customer_contacts :
          \E cm \in customer_contact_comm_methods : cm.customer_contact_id = cc.id
    /\ \A r \in Reqs :
          /\ \A row \in pending[r] : row \notin customer_contacts
          /\ response[r].kind = "contact not saved" =>
                /\ created[r] = {}
                /\ pending[r] = {}
                /\ \A cc \in customer_contacts : cc.id # NewContactId(r)

C17_Witness ==
    \E r1, r2 \in Reqs :
        /\ response[r1].kind = "contact not saved"
        /\ \A cc \in customer_contacts : cc.id # NewContactId(r1)
        /\ <<"customer_contacts", NewContactId(r2)>> \in created[r2]
        /\ \E cm \in customer_contact_comm_methods : cm.customer_contact_id = NewContactId(r2)

\* C16: an insert that conflicts with a row another request committed first
\* is absorbed: the request that lost the race ends up with the row created
\* first for its key (row ids grow in commit order), for the contact comm
\* method and for the conversation, and is not answered with an error.
C16_ConflictAbsorbed ==
    \A r \in Reqs :
        /\ Resolved(r) =>
              \A cm \in OwnMatches(r) : participants[r].contact_comm_method_id <= cm.id
        /\ conversation_id[r] # None =>
              \A cv \in conversations :
                  cv.participants_key = participants[r].participants_key
                      => conversation_id[r] <= cv.id
        /\ response[r].kind \notin
              {"multiple customer contacts communication methods found",
               "multiple conversations found"}

\* a bound on the number of steps a request still has to take: every step
\* of a request lowers it, and it is 0 once the request is answered
Rank(r) ==
    CASE pc[r] = "idle" -> 40
      [] pc[r] = "customer_select" -> 30
      [] pc[r] = "contact_select" -> 29
      [] pc[r] = "contact_flush" -> 28
      [] pc[r] = "contact_commit" -> 27
      [] pc[r] = "deliver" -> 20 - 2 * Len(calls[r])
      [] pc[r] = "backoff" -> 21 - 2 * Len(calls[r])
      [] pc[r] = "conv_select" -> 5
      [] pc[r] = "conv_commit" -> 4
      [] pc[r] = "save_message" -> 3
      [] pc[r] = "done" -> 0

InFlight(r) == pc[r] \notin {"idle", "done"}

\* C18: no request loops or waits without bound: every step strictly lowers
\* the step bound of the request that takes it and raises no other, a
\* request that has arrived and is not answered can take a step or waits
\* for the write lock of a request that can, at most 3 delivery attempts
\* are made, an inbound request makes none, and a request whose step bound
\* is 0 has its success or failure response.
C18_EveryRequestResponds ==
    /\ [][ /\ \A r \in Reqs : Rank(r)' <= Rank(r)
           /\ \E r \in Reqs : Rank(r)' < Rank(r) ]_vars
    /\ [](\A r \in Reqs :
            /\ Rank(r) >= 0
            /\ InFlight(r) =>
                  \/ ENABLED Step(r)
                  \/ lock \in Reqs \ {r} /\ ENABLED Step(lock)
            /\ Len(calls[r]) <= 3
            /\ data[r].direction = "inbound" => calls[r] = <<>>
            /\ pc[r] = "done" => response[r].status \in {200, 400, 500})

C18_Witness ==
    \E r1, r2 \in Reqs :
        /\ pc[r1] = "done" /\ pc[r2] = "done"
        /\ data[r1].direction = "outbound" /\ Len(calls[r1]) = 3
        /\ response[r1].status = 200
        /\ data[r2].direction = "inbound" /\ response[r2].status = 200

AllAnswered == \A r \in Reqs : pc[r] = "done"

\* the tables of AfterRaceInit are tables the service reaches from the
\* empty database
ContactRaceReached == AllAnswered /\ AfterContactRace
ConversationRaceReached == AllAnswered /\ AfterConversationRace

\* C19: an outbound request whose delivery succeeded ends with its Message
\* row recorded and a success response.
C19_DeliveredIsRecorded ==
    \A r \in Reqs :
        (data[r].direction = "outbound" /\ pc[r] = "done"
            /\ calls[r] # <<>> /\ Last(calls[r]) = "ok") =>
            /\ response[r].status = 200
            /\ MessagesOf(r) # {}

\* C20: in every reachable state a well-formed inbound request addressed to
\* the provisioned customer channel, run alone to completion, is not
\* rejected with a multiple-rows-found error: it succeeds and records its
\* message (unless its own contact insert fails).
C20_InboundAlwaysAccepted ==
    \A r \in Reqs :
        (data[r].direction = "inbound" /\ data[r].shape = "ok"
            /\ data[r].comm_type = "phone" /\ data[r].customer_addr = "a"
            /\ pc[r] = "done") =>
            /\ response[r].kind \notin
                  {"multiple customer contacts communication methods found",
                   "multiple conversations found"}
            /\ response[r].kind # "contact not saved" =>
                  /\ response[r].status = 200
                  /\ MessagesOf(r) # {}

\* the request has an open write transaction on the database: rows it has
\* flushed and not committed, or the write lock its first INSERT took
OpenTransaction(r) == lock = r \/ pending[r] # {}

InDelivery(r) == pc[r] \in {"deliver", "backoff"}

\* the rows of the contact tables the request resolved are committed rows
ResolutionCommitted(r) ==
    /\ \E cc \in customer_contacts : cc.id = participants[r].customer_contact_id
    /\ \E cm \in customer_contact_comm_methods :
          /\ cm.id = participants[r].contact_comm_method_id
          /\ cm.customer_contact_id = participants[r].customer_contact_id
    /\ \A row \in created[r] :
          /\ row[1] = "customer_contacts" =>
                \E cc \in customer_contacts : cc.id = row[2]
          /\ row[1] = "customer_contact_comm_methods" =>
                \E cm \in customer_contact_comm_methods : cm.id = row[2]

C22_EmptyEmailRejected ==
    \A r \in Reqs :
        (data[r].comm_type = "email" /\ data[r].shape = "empty") =>
            /\ pc[r] = "done"
            /\ response[r].status = 400
            /\ response[r].kind = "validation"
            /\ participants[r] = NoParticipants
            /\ calls[r] = <<>>
            /\ created[r] = {}

LastCallFailed(r) == calls[r] # <<>> /\ Last(calls[r]) # "ok"

\* C23: an outbound request whose latest delivery call failed has created
\* no Conversation and no Message row and has resolved no conversation; the
\* rows it created are contact rows only, they are committed, and they were
\* created before the first delivery call (no row is created during the
\* delivery phase); such a request retries or is answered 500.
C23_FailedDeliveryFrame ==
    /\ [](\A r \in Reqs :
            (data[r].direction = "outbound" /\ LastCallFailed(r)) =>
                /\ CreatedIn(r, "conversations") = {}
                /\ CreatedIn(r, "messages") = {}
                /\ conversation_id[r] = None
                /\ \A row \in created[r] :
                      row[1] \in {"customer_contacts", "customer_contact_comm_methods"}
                /\ Cardinality(created[r]) \in {0, 2}
                /\ ResolutionCommitted(r)
                /\ pc[r] \in {"deliver", "backoff", "done"}
                /\ pc[r] = "done" => response[r].status = 500)
    /\ [][\A r \in Reqs :
            (InDelivery(r) \/ calls[r] # <<>>) /\ LastCallFailed(r)'
                => created'[r] = created[r]]_vars

\* a request that created its contact and then failed to deliver has been
\* answered
C23_Witness ==
    \E r \in Reqs :
        /\ data[r].direction = "outbound"
        /\ pc[r] = "done"
        /\ response[r].status = 500
        /\ CreatedIn(r, "customer_contacts") # {}
        /\ CreatedIn(r, "customer_contact_comm_methods") # {}
        /\ Last(calls[r]) = "HTTPError"

\* C24: a request has slept fewer times than it has attempted delivery once
\* its retry loop is over, and after three timeouts it has slept exactly
\* 5s and 10s.
C24_SleepsOnlyBetweenAttempts ==
    \A r \in Reqs :
        /\ (calls[r] # <<>> /\ pc[r] = "done") => Len(sleeps[r]) < Len(calls[r])
        /\ (AllTimeouts(r) /\ Len(calls[r]) = MAX_RETRIES /\ pc[r] = "done") =>
              sleeps[r] = <<5, 10>>

CustomerCommOf(m) ==
    IF m.to_customer_comm_id # None THEN m.to_customer_comm_id ELSE m.from_customer_comm_id

ContactCommOf(m) ==
    IF m.to_contact_comm_id # None THEN m.to_contact_comm_id ELSE m.from_contact_comm_id

\* C25: every Message row names an existing Conversation; the customer of
\* that conversation owns the message's customer comm method, the contact
\* of that conversation owns the message's contact comm method, and that
\* contact is a contact of that customer.
C25_MessageReferences ==
    \A m \in messages :
        /\ \E c \in conversations : c.id = m.conversation_id
        /\ \A c \in conversations :
              c.id = m.conversation_id =>
                  /\ \E cm \in customer_comm_methods :
                        cm.id = CustomerCommOf(m) /\ cm.customer_id = c.customer_id
                  /\ \E cm \in customer_contact_comm_methods :
                        /\ cm.id = ContactCommOf(m)
                        /\ cm.customer_contact_id = c.customer_contact_id
                  /\ \E cc \in customer_contacts :
                        cc.id = c.customer_contact_id /\ cc.customer_id = c.customer_id

\* an inbound and an outbound message are recorded while another customer
\* has a contact with the same address
C25_Witness ==
    /\ \E m1, m2 \in messages :
          m1.to_customer_comm_id # None /\ m2.from_customer_comm_id # None
    /\ \E cc \in customer_contacts : cc.customer_id = 3
    /\ \E cc \in customer_contacts : cc.customer_id = 2
====
